---- MODULE Spec2Model ----
(***************************************************************************)
(* Two-party messaging store (app/models/cassandra_models.py and the two   *)
(* controllers).  The store is two Cassandra tables, `conversations` and   *)
(* `messages_by_conversation`; every cassandra_client.execute call is one  *)
(* atomic step on them, and the Python code between two execute calls is   *)
(* local to the request that runs it.  Requests are run by NumProcs        *)
(* workers, so the steps of different requests interleave.                 *)
(***************************************************************************)
EXTENDS Integers, Sequences, FiniteSets, TLC

\* ------------------------------------------------------------------ bounds
MaxUser == 2
MaxConv == 2
MaxMsg == 2
MaxTime == 2
NumProcs == 2
MaxPage == 2
MaxLimit == 2
MaxNeg == 1

Users == 1..MaxUser
ConvIds == 1..MaxConv          \* the values uuid.uuid4() can return for a conversation
MsgIds == 1..MaxMsg            \* the values uuid.uuid4() can return for a message
Times == 1..MaxTime            \* the values datetime.utcnow() can return
Procs == 1..NumProcs
Pages == (0 - MaxNeg)..MaxPage
Limits == (0 - MaxNeg)..MaxLimit
Contents == {"hi", "hello"}

\* A conversation id supplied by a caller that no uuid4() call ever returned.
UnknownId == 0
\* datetime.min, the sort key of a conversation without last_message_at.
MinTime == 0
\* None in a timestamp column / None in a text column / None for a user id.
NullTime == -1
NullText == "NULL"
NullUser == -1
\* None in the list_of_users column.
NullUsers == << >>

VARIABLES
    conversations,  \* table conversations: conversation_id -> row
    messages,       \* table messages_by_conversation: a set of rows
    now,            \* the wall clock read by datetime.utcnow()
    pc,             \* per worker: the next block of its request
    call,           \* per worker: arguments and locals of its request
    resp,           \* what the last step of a request returned to its caller
                    \* (NoResp if it returned nothing)
    envelope        \* what a read has returned (the envelope of a paged read,
                    \* the outcome of get_conversation), until its caller has
                    \* taken it

vars == <<conversations, messages, now, pc, call, resp, envelope>>

\* ------------------------------------------------------------ pure helpers
Min2(a, b) == IF a <= b THEN a ELSE b
Max2(a, b) == IF a <= b THEN b ELSE a

Range(s) == {s[i] : i \in 1..Len(s)}

\* Python's list slice s[start:stop] (0-based, negative indices count from
\* the end, out-of-range indices are clamped).
PyIndex(i, n) == IF i < 0 THEN (IF i + n < 0 THEN 0 ELSE i + n)
                 ELSE IF i > n THEN n ELSE i

PySlice(s, start, stop) ==
    LET lo == PyIndex(start, Len(s))
        hi == PyIndex(stop, Len(s))
    IN  IF lo >= hi THEN << >> ELSE SubSeq(s, lo + 1, hi)

\* Mutant: the slice ends one row late (results[start:start + limit + 1]).
Paginate_OneMore(results, page, limit) ==
    LET start == (page - 1) * limit
    IN  PySlice(results, start, start + limit + 1)

\* Mutant: pages are counted from 0 (start = page * limit).
Paginate_FromZero(results, page, limit) ==
    LET start == page * limit
    IN  PySlice(results, start, start + limit)

\* start = (page - 1) * limit; results[start:start + limit]
Paginate(results, page, limit) ==
    LET start == (page - 1) * limit
    IN  PySlice(results, start, start + limit)

\* ------------------------------------------------------------- the storage
\* Rows of messages_by_conversation come back in clustering order: sent_at
\* descending, then message_id.
ClusterBefore(x, y) ==
    \/ x.sent_at > y.sent_at
    \/ x.sent_at = y.sent_at /\ x.message_id < y.message_id

RECURSIVE ClusterOrder(_)
ClusterOrder(S) ==
    IF S = {} THEN << >>
    ELSE LET m == CHOOSE x \in S : \A y \in S : x = y \/ ClusterBefore(x, y)
         IN  <<m>> \o ClusterOrder(S \ {m})

\* Rows of conversations come back in token order of the partition key, an
\* order fixed by the (random) conversation ids.
RECURSIVE TokenOrder(_, _)
TokenOrder(convs, ids) ==
    IF ids = {} THEN << >>
    ELSE LET i == CHOOSE x \in ids : \A y \in ids : x <= y
         IN  <<[convs[i] EXCEPT !.conversation_id = i]>> \o TokenOrder(convs, ids \ {i})

\* SELECT * FROM messages_by_conversation WHERE conversation_id = %s
SelectMessages(msgs, c) ==
    ClusterOrder({m \in msgs : m.conversation_id = c})

\* Mutant: the bound is inclusive (sent_at <= %s).
SelectMessagesBefore_Inclusive(msgs, c, before) ==
    ClusterOrder({m \in msgs : m.conversation_id = c /\ m.sent_at <= before})

\* ... WHERE conversation_id = %s AND sent_at < %s
SelectMessagesBefore(msgs, c, before) ==
    ClusterOrder({m \in msgs : m.conversation_id = c /\ m.sent_at < before})

\* Mutant: the query tests the list for equality with the user instead of
\* membership (list_of_users = [%s]).
SelectContains_Equals(convs, u) ==
    TokenOrder(convs, {i \in DOMAIN convs : convs[i].list_of_users = <<u>>})

\* SELECT * FROM conversations WHERE list_of_users CONTAINS %s ALLOW FILTERING
SelectContains(convs, u) ==
    TokenOrder(convs, {i \in DOMAIN convs : u \in Range(convs[i].list_of_users)})

\* Mutant: only user1_id is stored in list_of_users.
InsertConversation_OnlyFirst(convs, id, users, at) ==
    (id :> [conversation_id |-> id, list_of_users |-> <<users[1]>>, created_at |-> at,
            last_message_at |-> at, last_message_content |-> NullText]) @@ convs

\* Mutant: the insert is conditional on no conversation of the pair existing
\* (a uniqueness constraint on the pair).
InsertConversation_IfAbsent(convs, id, users, at) ==
    IF \E i \in DOMAIN convs : Range(convs[i].list_of_users) = Range(users)
    THEN convs
    ELSE (id :> [conversation_id |-> id, list_of_users |-> users, created_at |-> at,
                 last_message_at |-> at, last_message_content |-> NullText]) @@ convs

\* INSERT INTO conversations (conversation_id, list_of_users, created_at, last_message_at)
InsertConversation(convs, id, users, at) ==
    (id :> [conversation_id |-> id, list_of_users |-> users, created_at |-> at,
            last_message_at |-> at, last_message_content |-> NullText]) @@ convs

\* Mutant: the summary is overwritten only by a strictly newer timestamp.
UpdateConversation_IfNewer(convs, id, content, at) ==
    IF id \in DOMAIN convs /\ convs[id].last_message_at < at
    THEN [convs EXCEPT ![id].last_message_content = content,
                       ![id].last_message_at = at]
    ELSE convs

\* Mutant: the summary is stamped with the time of the update
\* (datetime.utcnow() read again) instead of the message's created_at.
UpdateConversation_FreshClock(convs, id, content, at) ==
    IF id \in DOMAIN convs
    THEN [convs EXCEPT ![id].last_message_content = content,
                       ![id].last_message_at = now]
    ELSE convs

\* UPDATE conversations SET last_message_content = %s, last_message_at = %s
\* WHERE conversation_id = %s   (a Cassandra UPDATE writes the row if absent)
UpdateConversation(convs, id, content, at) ==
    IF id \in DOMAIN convs
    THEN [convs EXCEPT ![id].last_message_content = content,
                       ![id].last_message_at = at]
    ELSE (id :> [conversation_id |-> id, list_of_users |-> NullUsers,
                 created_at |-> NullTime, last_message_at |-> at,
                 last_message_content |-> content]) @@ convs

\* The primary key of messages_by_conversation.
MessageKey(m) == <<m.conversation_id, m.sent_at, m.message_id>>

\* Mutant: the insert keeps one row per conversation (the row replaces the
\* rows of its partition).
InsertMessage_LatestOnly(msgs, c, at, mid, s, r, content) ==
    LET row == [conversation_id |-> c, sent_at |-> at, message_id |-> mid,
                sender_id |-> s, receiver_id |-> r, content |-> content]
    IN  {m \in msgs : m.conversation_id # c} \cup {row}

\* Mutant: message_id is not part of what identifies a row (the row replaces a
\* row of its conversation with the same sent_at).
InsertMessage_KeyedByTime(msgs, c, at, mid, s, r, content) ==
    LET row == [conversation_id |-> c, sent_at |-> at, message_id |-> mid,
                sender_id |-> s, receiver_id |-> r, content |-> content]
    IN  {m \in msgs : ~(m.conversation_id = c /\ m.sent_at = at)} \cup {row}

\* INSERT INTO messages_by_conversation (conversation_id, sent_at, message_id,
\* sender_id, receiver_id, content): the row replaces a row with its key.
InsertMessage(msgs, c, at, mid, s, r, content) ==
    LET row == [conversation_id |-> c, sent_at |-> at, message_id |-> mid,
                sender_id |-> s, receiver_id |-> r, content |-> content]
    IN  {m \in msgs : MessageKey(m) # MessageKey(row)} \cup {row}

\* ------------------------------------------------------- ConversationModel
\* Mutant: the loop returns the first row of the query without testing
\* user2_id.
FirstWith_Any(results, u) ==
    IF results = << >> THEN << >> ELSE <<Head(results)>>

\* for conv in results: if user2_id in conv.get("list_of_users", []): return conv
RECURSIVE FirstWith(_, _)
FirstWith(results, u) ==
    IF results = << >> THEN << >>
    ELSE IF u \in Range(Head(results).list_of_users) THEN <<Head(results)>>
    ELSE FirstWith(Tail(results), u)

\* Mutant: a row matches only if its list is [user1_id, user2_id] in that order.
RECURSIVE FirstEqual(_, _)
FirstEqual(results, users) ==
    IF results = << >> THEN << >>
    ELSE IF Head(results).list_of_users = users THEN <<Head(results)>>
    ELSE FirstEqual(Tail(results), users)

Lookup_Ordered(convs, user1_id, user2_id) ==
    FirstEqual(SelectContains(convs, user1_id), <<user1_id, user2_id>>)

\* The lookup of create_or_get_conversation: << >> or <<the row returned>>.
Lookup(convs, user1_id, user2_id) ==
    FirstWith(SelectContains(convs, user1_id), user2_id)

\* results.sort(key=lambda x: x.get("last_message_at") or datetime.min, reverse=True)
SortKey(conv) ==
    IF conv.last_message_at = NullTime THEN MinTime ELSE conv.last_message_at

\* list.sort is stable, also with reverse=True: rows with equal keys keep the
\* order they had in results, so a row goes before the later rows whose key is
\* at most its own.
RECURSIVE InsertDesc(_, _)
InsertDesc(x, sorted) ==
    IF sorted = << >> THEN <<x>>
    ELSE IF SortKey(Head(sorted)) > SortKey(x)
         THEN <<Head(sorted)>> \o InsertDesc(x, Tail(sorted))
         ELSE <<x>> \o sorted

\* Mutant: the rows are left in the order the query returned them.
SortByLastMessage_Unsorted(results) == results

RECURSIVE SortByLastMessage(_)
SortByLastMessage(results) ==
    IF results = << >> THEN << >>
    ELSE InsertDesc(Head(results), SortByLastMessage(Tail(results)))

\* get_user_conversations: the envelope's total and data
UserConversations(convs, user_id) ==
    SortByLastMessage(SelectContains(convs, user_id))

\* Mutant: the pair is reported in the order it was stored (users[:2]).
NormalizedPair_AsStored(users) ==
    IF Len(users) >= 2 THEN <<users[1], users[2]>>
    ELSE IF Len(users) = 1 THEN <<users[1], users[1]>>
    ELSE <<NullUser, NullUser>>

\* users = conv.get("list_of_users", []); sorted(users)[:2] / users[0] / None
NormalizedPair(users) ==
    IF Len(users) >= 2 THEN <<Min2(users[1], users[2]), Max2(users[1], users[2])>>
    ELSE IF Len(users) = 1 THEN <<users[1], users[1]>>
    ELSE <<NullUser, NullUser>>

ConvItem(conv) ==
    [id |-> conv.conversation_id,
     user1_id |-> NormalizedPair(conv.list_of_users)[1],
     user2_id |-> NormalizedPair(conv.list_of_users)[2],
     last_message_at |-> conv.last_message_at,
     last_message_content |-> conv.last_message_content]

\* SELECT * FROM conversations WHERE conversation_id = %s
SelectById(convs, c) ==
    TokenOrder(convs, {i \in DOMAIN convs : i = c})

\* Mutant: the empty result is not checked; a conversation without fields is
\* returned for an id that is not stored.
GetConversation_NoCheck(convs, c) ==
    LET results == SelectById(convs, c)
    IN  [op |-> "getById", key |-> c, status |-> "ok",
         item |-> IF results = << >>
                  THEN [id |-> c, user1_id |-> NullUser, user2_id |-> NullUser,
                        last_message_at |-> NullTime, last_message_content |-> NullText]
                  ELSE ConvItem(results[1])]

\* get_conversation: raise Exception("Conversation not found") if not results,
\* else the dict built from results[0].
GetConversation(convs, c) ==
    LET results == SelectById(convs, c)
    IN  IF results = << >>
        THEN [op |-> "getById", key |-> c, status |-> "NotFound"]
        ELSE [op |-> "getById", key |-> c, status |-> "ok", item |-> ConvItem(results[1])]

\* MessageResponse(id=msg["message_id"], created_at=msg["sent_at"], ...)
MsgItem(msg) ==
    [id |-> msg.message_id, created_at |-> msg.sent_at, sender_id |-> msg.sender_id,
     receiver_id |-> msg.receiver_id, content |-> msg.content,
     conversation_id |-> msg.conversation_id]

\* data = [MessageResponse(...) for msg in paginated_results]
MsgItems(rows) == [i \in 1..Len(rows) |-> MsgItem(rows[i])]

\* for conv in data: conv_list.append({...})
ConvItems(rows) == [i \in 1..Len(rows) |-> ConvItem(rows[i])]

\* Mutant: total counts the rows of the window (len(paginated_results)).
PageOf_TotalOfWindow(results, page, limit) ==
    [total |-> Len(Paginate(results, page, limit)), page |-> page, limit |-> limit,
     rows |-> Paginate(results, page, limit)]

\* total = len(results); start = (page - 1) * limit;
\* paginated_results = results[start:start + limit]
PageOf(results, page, limit) ==
    [total |-> Len(results), page |-> page, limit |-> limit,
     rows |-> Paginate(results, page, limit)]

\* return {"total": total, "page": page, "limit": limit, "data": data}
\* op, key and before record the call the envelope answers.
Envelope(op, key, before, window, data) ==
    [op |-> op, key |-> key, before |-> before, status |-> "ok",
     total |-> window.total, page |-> window.page, limit |-> window.limit,
     data |-> data]

\* ----------------------------------------------------------------- state
NoCall == [op |-> "none", user1 |-> 0, user2 |-> 0, content |-> NullText,
           conversation_id |-> UnknownId, created_at |-> NullTime, message_id |-> 0]

NoResp == [op |-> "none"]
NoPage == [op |-> "none"]

Init ==
    /\ conversations = << >>
    /\ messages = {}
    /\ now = 1
    /\ pc = [p \in Procs |-> "idle"]
    /\ call = [p \in Procs |-> NoCall]
    /\ resp = NoResp
    /\ envelope = NoPage

AllIdle == \A p \in Procs : pc[p] = "idle"

\* Requests in flight that will still insert a conversation / a message.
PendingConvs == Cardinality({p \in Procs : pc[p] = "fc_insert"})
PendingMsgs ==
    Cardinality({p \in Procs : pc[p] \in {"fc_insert", "cm_insert"}
                               /\ call[p].op = "send"})

FreeConvIds == ConvIds \ DOMAIN conversations
\* uuid.uuid4() for a message: an id no message has; the ids are drawn in the
\* order of the inserts.
FreeMsgIds == MsgIds \ 1..Cardinality(messages)
NewMessageId == Cardinality(messages) + 1

\* The model's bounds: a request starts only if the ids it may draw are left.
ConvRoom(a, b) ==
    \/ Lookup(conversations, a, b) # << >>
    \/ Cardinality(FreeConvIds) > PendingConvs
MsgRoom == Cardinality(FreeMsgIds) > PendingMsgs

\* --------------------------------------------------------------- requests
\* What create_or_get_conversation returns: the row found (keys
\* conversation_id, list_of_users, ...) or the dict built after the insert.
FoundResp(a, b, conv) ==
    [op |-> "findOrCreate", user1 |-> a, user2 |-> b, created |-> FALSE,
     id |-> conv.conversation_id, list_of_users |-> conv.list_of_users]

CreatedResp(a, b, id) ==
    [op |-> "findOrCreate", user1 |-> a, user2 |-> b, created |-> TRUE,
     id |-> id, list_of_users |-> <<a, b>>]

\* Mutant: send_message reads only the key "id" of what
\* create_or_get_conversation returned; a row found by the lookup has the key
\* "conversation_id" instead.
Returned_IdKeyOnly(p, c, id, r) ==
    IF c.op = "send"
    THEN /\ pc' = [pc EXCEPT ![p] = "cm_insert"]
         /\ call' = [call EXCEPT ![p] =
                        [c EXCEPT !.conversation_id = IF r.created THEN id ELSE UnknownId]]
         /\ resp' = NoResp
    ELSE /\ pc' = [pc EXCEPT ![p] = "idle"]
         /\ call' = [call EXCEPT ![p] = NoCall]
         /\ resp' = r

\* create_or_get_conversation has returned conversation `id` to its caller:
\* the request is over, or send_message goes on with create_message
\* (conversation_id = conversation.get("id") or conversation.get("conversation_id")).
Returned(p, c, id, r) ==
    IF c.op = "send"
    THEN /\ pc' = [pc EXCEPT ![p] = "cm_insert"]
         /\ call' = [call EXCEPT ![p] = [c EXCEPT !.conversation_id = id]]
         /\ resp' = NoResp
    ELSE /\ pc' = [pc EXCEPT ![p] = "idle"]
         /\ call' = [call EXCEPT ![p] = NoCall]
         /\ resp' = r

\* A request arrives and runs to the end of its first storage call: the SELECT
\* of create_or_get_conversation and the loop over its rows.
FcSelect(p, c) ==
    /\ pc[p] = "idle"
    /\ LET found == Lookup(conversations, c.user1, c.user2)
       IN  IF found # << >>
           THEN Returned(p, c, found[1].conversation_id,
                         FoundResp(c.user1, c.user2, found[1]))
           ELSE /\ pc' = [pc EXCEPT ![p] = "fc_insert"]
                /\ call' = [call EXCEPT ![p] = c]
                /\ resp' = NoResp
    /\ UNCHANGED <<conversations, messages, now, envelope>>

\* ConversationModel.create_or_get_conversation(user1_id, user2_id)
FindOrCreate(p, a, b) ==
    /\ pc[p] = "idle"
    /\ ConvRoom(a, b)
    /\ FcSelect(p, [NoCall EXCEPT !.op = "findOrCreate", !.user1 = a, !.user2 = b])

\* MessageController.send_message(message_data)
Send(p, s, r, content) ==
    /\ pc[p] = "idle"
    /\ ConvRoom(s, r)
    /\ MsgRoom
    /\ FcSelect(p, [NoCall EXCEPT !.op = "send", !.user1 = s, !.user2 = r,
                                  !.content = content])

\* conversation_id = uuid.uuid4(); created_at = datetime.utcnow(); INSERT
FcInsert(p) ==
    /\ pc[p] = "fc_insert"
    /\ \E id \in FreeConvIds :
          /\ conversations' = InsertConversation(conversations, id,
                                  <<call[p].user1, call[p].user2>>, now)
          /\ Returned(p, call[p], id, CreatedResp(call[p].user1, call[p].user2, id))
    /\ UNCHANGED <<messages, now, envelope>>

\* created_at = datetime.utcnow(); message_id = uuid.uuid4(); INSERT
CmInsert(p) ==
    /\ pc[p] = "cm_insert"
    /\ \E mid \in {NewMessageId} :
          /\ messages' = InsertMessage(messages, call[p].conversation_id, now, mid,
                                       call[p].user1, call[p].user2, call[p].content)
          /\ call' = [call EXCEPT ![p].created_at = now, ![p].message_id = mid]
    /\ pc' = [pc EXCEPT ![p] = "cm_update"]
    /\ resp' = NoResp
    /\ UNCHANGED <<conversations, now, envelope>>

\* The UPDATE of the conversation and the return of the message.
CmUpdate(p) ==
    /\ pc[p] = "cm_update"
    /\ conversations' = UpdateConversation(conversations, call[p].conversation_id,
                                           call[p].content, call[p].created_at)
    /\ resp' = [op |-> "send", id |-> call[p].message_id,
                sender_id |-> call[p].user1, receiver_id |-> call[p].user2,
                content |-> call[p].content, created_at |-> call[p].created_at,
                conversation_id |-> call[p].conversation_id]
    /\ pc' = [pc EXCEPT ![p] = "idle"]
    /\ call' = [call EXCEPT ![p] = NoCall]
    /\ UNCHANGED <<messages, now, envelope>>

\* What the caller gets when a cassandra_client.execute call of its request
\* raises: the exception leaves the model function, nothing catches it before
\* send_message's `except Exception`, and nothing is undone.
ErrorResp(c, stage) ==
    [op |-> "error", of |-> c.op, kind |-> "StorageUnavailable", stage |-> stage]

\* Mutant: the failed request undoes its message write (a compensating DELETE
\* in the except branch).
Fail_Rollback(p) ==
    /\ pc[p] \in {"fc_insert", "cm_insert", "cm_update"}
    /\ resp' = ErrorResp(call[p], pc[p])
    /\ messages' = IF pc[p] = "cm_update"
                   THEN {m \in messages : m.message_id # call[p].message_id}
                   ELSE messages
    /\ pc' = [pc EXCEPT ![p] = "idle"]
    /\ call' = [call EXCEPT ![p] = NoCall]
    /\ UNCHANGED <<conversations, now, envelope>>

\* The next storage call of request p (the INSERT of the conversation, the
\* INSERT of the message or the UPDATE of the summary) raises instead of
\* writing: the request ends with the error, the tables are as they were.
Fail(p) ==
    /\ pc[p] \in {"fc_insert", "cm_insert", "cm_update"}
    /\ resp' = ErrorResp(call[p], pc[p])
    /\ pc' = [pc EXCEPT ![p] = "idle"]
    /\ call' = [call EXCEPT ![p] = NoCall]
    /\ UNCHANGED <<conversations, messages, now, envelope>>

\* A request arrives and its first storage call, the SELECT of
\* create_or_get_conversation, raises.
FailSelect(p) ==
    /\ pc[p] = "idle"
    /\ \E op \in {"findOrCreate", "send"} :
          resp' = ErrorResp([NoCall EXCEPT !.op = op], "fc_select")
    /\ UNCHANGED <<conversations, messages, now, pc, call, envelope>>

\* MessageModel.get_conversation_messages(conversation_id, page, limit)
ListByConversation(c, pg, limit) ==
    /\ LET window == PageOf(SelectMessages(messages, c), pg, limit)
       IN  envelope' = Envelope("listByConversation", c, NullTime, window,
                                MsgItems(window.rows))
    /\ resp' = NoResp
    /\ UNCHANGED <<conversations, messages, now, pc, call>>

\* MessageModel.get_messages_before_timestamp(conversation_id, before, page, limit)
ListBefore(c, before, pg, limit) ==
    /\ LET window == PageOf(SelectMessagesBefore(messages, c, before), pg, limit)
       IN  envelope' = Envelope("listBefore", c, before, window,
                                MsgItems(window.rows))
    /\ resp' = NoResp
    /\ UNCHANGED <<conversations, messages, now, pc, call>>

\* ConversationModel.get_user_conversations(user_id, page, limit)
ListForUser(u, pg, limit) ==
    /\ LET window == PageOf(UserConversations(conversations, u), pg, limit)
       IN  envelope' = Envelope("listForUser", u, NullTime, window,
                                ConvItems(window.rows))
    /\ resp' = NoResp
    /\ UNCHANGED <<conversations, messages, now, pc, call>>

\* ConversationModel.get_conversation(conversation_id)
GetById(c) ==
    /\ envelope' = GetConversation(conversations, c)
    /\ resp' = NoResp
    /\ UNCHANGED <<conversations, messages, now, pc, call>>

\* The caller of a read takes what it returned.
Consume ==
    /\ envelope # NoPage
    /\ envelope' = NoPage
    /\ UNCHANGED <<conversations, messages, now, pc, call, resp>>

\* Time passes between two readings of the clock.
Tick ==
    /\ now < MaxTime
    /\ now' = now + 1
    /\ UNCHANGED <<conversations, messages, pc, call, resp, envelope>>

Arrive(p) ==
    \E a \in Users, b \in Users :
        \/ FindOrCreate(p, a, b)
        \/ \E content \in Contents : Send(p, a, b, content)

Step ==
    \E p \in Procs : FcInsert(p) \/ CmInsert(p) \/ CmUpdate(p)

Read ==
    \/ \E pg \in Pages, limit \in Limits :
          \/ \E c \in DOMAIN conversations \cup {UnknownId} :
                \/ ListByConversation(c, pg, limit)
                \/ \E before \in Times : ListBefore(c, before, pg, limit)
          \/ \E u \in Users : ListForUser(u, pg, limit)
    \/ \E c \in ConvIds \cup {UnknownId} : GetById(c)

\* Requests of any number of callers, their storage calls interleaved.
Next == (\E p \in Procs : Arrive(p)) \/ Step \/ Tick

Spec == Init /\ [][Next]_vars

\* Requests that do not overlap: each runs to completion before the next one
\* starts, so one worker runs them all.
Worker == CHOOSE p \in Procs : \A q \in Procs : p <= q

NextSeq == (AllIdle /\ Arrive(Worker)) \/ Step \/ Tick

SpecSeq == Init /\ [][NextSeq]_vars

\* Requests that do not overlap, paged reads among them; the caller of a read
\* takes its envelope before the next request starts.
Quiet == AllIdle /\ envelope = NoPage

NextRead ==
    \/ Quiet /\ Arrive(Worker)
    \/ Step
    \/ Quiet /\ Read
    \/ Consume
    \/ envelope = NoPage /\ Tick

SpecRead == Init /\ [][NextRead]_vars

\* Requests that do not overlap, on a storage whose calls can fail; between
\* requests a caller reads the first page of a conversation, large enough to
\* hold every message.
NextFail ==
    \/ Quiet /\ Arrive(Worker)
    \/ Step
    \/ \E p \in Procs : Fail(p)
    \/ Quiet /\ FailSelect(Worker)
    \/ Quiet /\ \E c \in DOMAIN conversations : ListByConversation(c, 1, MaxMsg)
    \/ Consume
    \/ envelope = NoPage /\ Tick

SpecFail == Init /\ [][NextFail]_vars

\* ------------------------------------------------------------ properties
\* The conversations whose participant set is exactly {a, b}.
ConvsOf(convs, a, b) ==
    {i \in DOMAIN convs : Range(convs[i].list_of_users) = {a, b}}

MessagesOf(c) == {m \in messages : m.conversation_id = c}

\* C1: two findOrCreate(A, B) calls run one after the other, with nothing in
\* between, return the same conversation id: when the call that returned last
\* was findOrCreate(A, B) and findOrCreate(A, B) arrives, it returns from its
\* lookup with the id returned before.
C1_SameIdTwice ==
    [][\A p \in Procs, a \in Users, b \in Users :
          (/\ resp.op = "findOrCreate" /\ resp.user1 = a /\ resp.user2 = b
           /\ FindOrCreate(p, a, b))
          => (resp'.op = "findOrCreate" /\ resp'.id = resp.id)]_vars

\* A second findOrCreate(A, B) has returned the conversation a first
\* findOrCreate(A, B) created, nothing else having run.
C1_Witness ==
    /\ resp.op = "findOrCreate" /\ ~resp.created
    /\ resp.user1 # resp.user2
    /\ messages = {}
    /\ DOMAIN conversations = {resp.id}
    /\ conversations[resp.id].list_of_users = <<resp.user1, resp.user2>>

\* C2: findOrCreate(A, B) followed by findOrCreate(B, A) returns the same
\* conversation id: when the call that returned last was findOrCreate(B, A) and
\* findOrCreate(A, B) arrives, it returns the id returned before.
C2_SameIdReversed ==
    [][\A p \in Procs, a \in Users, b \in Users :
          (/\ resp.op = "findOrCreate" /\ resp.user1 = b /\ resp.user2 = a
           /\ FindOrCreate(p, a, b))
          => (resp'.op = "findOrCreate" /\ resp'.id = resp.id)]_vars

\* findOrCreate(B, A) has returned the conversation findOrCreate(A, B) created.
C2_Witness ==
    /\ resp.op = "findOrCreate" /\ ~resp.created
    /\ resp.user1 # resp.user2
    /\ messages = {}
    /\ DOMAIN conversations = {resp.id}
    /\ conversations[resp.id].list_of_users = <<resp.user2, resp.user1>>

\* C3: when requests do not overlap, any two distinct users have at most one
\* conversation whose participant set is exactly that pair.
C3_OneConversationPerPair ==
    \A a \in Users, b \in Users :
        a # b => Cardinality(ConvsOf(conversations, a, b)) <= 1

\* Two sends between the same two users, one in each direction, have stored
\* their messages in one conversation.
C3_Witness ==
    \E c \in DOMAIN conversations :
        /\ Cardinality(Range(conversations[c].list_of_users)) = 2
        /\ \E m1 \in MessagesOf(c), m2 \in MessagesOf(c) :
              m1.sender_id = m2.receiver_id /\ m1.receiver_id = m2.sender_id

\* C4: findOrCreate is check-then-act: a call whose lookup found no
\* conversation inserts a new one for its pair whatever has been inserted since
\* the lookup, so two calls for one pair that both looked up before either
\* inserted leave two conversations for the pair.
C4_InsertsAfterLookup ==
    [][\A p \in Procs :
          (pc[p] = "fc_insert" /\ pc'[p] # "fc_insert")
          => Cardinality(ConvsOf(conversations', call[p].user1, call[p].user2))
               = Cardinality(ConvsOf(conversations, call[p].user1, call[p].user2)) + 1]_vars

\* Two conversations for one pair of distinct users.
C4_Witness ==
    \E a \in Users, b \in Users :
        a # b /\ Cardinality(ConvsOf(conversations, a, b)) = 2

\* The summary of conversation c is that of a message of c with the greatest
\* created_at.
SummaryIsNewest(convs, msgs, c) ==
    \E m \in msgs :
        /\ m.conversation_id = c
        /\ \A n \in msgs : n.conversation_id = c => n.sent_at <= m.sent_at
        /\ convs[c].last_message_at = m.sent_at
        /\ convs[c].last_message_content = m.content

AppendInProgress(c) ==
    \E p \in Procs : pc[p] \in {"cm_insert", "cm_update"} /\ call[p].conversation_id = c

\* C5 as stated: under any interleaving of appends, whenever no append on a
\* conversation is in progress and one has completed, its summary is that of
\* its message with the greatest created_at.
C5_SummaryIsNewest ==
    \A c \in DOMAIN conversations :
        (~AppendInProgress(c) /\ MessagesOf(c) # {})
        => SummaryIsNewest(conversations, messages, c)

\* C5, amended: the summary is that of the append whose summary update ran
\* last; it is the summary of the message with the greatest created_at when
\* that append's message is the newest of the conversation.
C5_LastWriteWins ==
    [][\A p \in Procs :
          (pc[p] = "cm_update" /\ pc'[p] = "idle")
          => LET c == call[p].conversation_id
             IN  /\ conversations'[c].last_message_at = call[p].created_at
                 /\ conversations'[c].last_message_content = call[p].content
                 /\ (\A m \in MessagesOf(c) : m.sent_at <= call[p].created_at)
                      => SummaryIsNewest(conversations', messages', c)]_vars

\* An append has completed on a conversation that holds an older message, and
\* the summary is that of the newer one.
C5_Witness ==
    /\ resp.op = "send"
    /\ \E m \in MessagesOf(resp.conversation_id) : m.sent_at < resp.created_at
    /\ conversations[resp.conversation_id].last_message_at = resp.created_at
    /\ conversations[resp.conversation_id].last_message_content = resp.content

\* The full ordered result set the envelope's read windowed, from the store
\* as it is (no request has run since the read).
FullResult ==
    IF envelope.op = "listByConversation"
    THEN MsgItems(SelectMessages(messages, envelope.key))
    ELSE IF envelope.op = "listBefore"
    THEN MsgItems(SelectMessagesBefore(messages, envelope.key, envelope.before))
    ELSE ConvItems(UserConversations(conversations, envelope.key))

IsRead == envelope.op \in {"listByConversation", "listBefore", "listForUser"}
ValidWindow == envelope.page >= 1 /\ envelope.limit >= 1

\* C6: listByConversation with page >= 1 and limit >= 1 returns data ordered
\* by created_at non-increasing, and never more than limit items.
C6_NewestFirstAtMostLimit ==
    (envelope.op = "listByConversation" /\ ValidWindow)
    => /\ Len(envelope.data) <= envelope.limit
       /\ \A i \in 1..Len(envelope.data), j \in 1..Len(envelope.data) :
             i < j => envelope.data[i].created_at >= envelope.data[j].created_at

\* A page of two messages appended at different times, the newer one first.
C6_Witness ==
    /\ envelope.op = "listByConversation" /\ ValidWindow
    /\ Len(envelope.data) = 2
    /\ envelope.data[1].created_at > envelope.data[2].created_at

\* C7: listBefore returns only messages of the conversation with created_at
\* strictly less than T, and total counts only those.
C7_StrictlyBefore ==
    envelope.op = "listBefore"
    => /\ \A i \in 1..Len(envelope.data) :
             /\ envelope.data[i].created_at < envelope.before
             /\ envelope.data[i].conversation_id = envelope.key
       /\ envelope.total =
             Cardinality({m \in MessagesOf(envelope.key) : m.sent_at < envelope.before})

\* listBefore(T) on a conversation that holds a message created at T and an
\* older one: the older one is returned, the one at T is not.
C7_Witness ==
    /\ envelope.op = "listBefore"
    /\ \E m \in MessagesOf(envelope.key) : m.sent_at = envelope.before
    /\ envelope.total = 1
    /\ Len(envelope.data) = 1

\* C8: the total of listByConversation and of listForUser is the number of
\* all matching records, whatever page and limit are.
C8_TotalIsFullCount ==
    /\ envelope.op = "listByConversation"
         => envelope.total = Cardinality(MessagesOf(envelope.key))
    /\ envelope.op = "listForUser"
         => envelope.total =
               Cardinality({i \in DOMAIN conversations :
                               envelope.key \in Range(conversations[i].list_of_users)})

\* A read whose window is smaller than the two records that match.
C8_Witness ==
    /\ envelope.op \in {"listByConversation", "listForUser"}
    /\ envelope.total = 2
    /\ Len(envelope.data) < 2

\* The positions of the full result set a valid window covers: from
\* (page - 1) * limit + 1 to (page - 1) * limit + limit, cut at the end.
WindowLen(n, page, limit) ==
    LET start == (page - 1) * limit
    IN  IF start >= n THEN 0 ELSE Min2(limit, n - start)

\* C9: for page >= 1 and limit >= 1 the data of a paged read is the elements
\* at positions [(page-1)*limit, (page-1)*limit+limit) of the full ordered
\* result set, and empty (with the full total) from the end on.
C9_WindowOfFullResult ==
    (IsRead /\ ValidWindow)
    => LET full == FullResult
           start == (envelope.page - 1) * envelope.limit
       IN  /\ envelope.total = Len(full)
           /\ Len(envelope.data) = WindowLen(Len(full), envelope.page, envelope.limit)
           /\ \A k \in 1..Len(envelope.data) : envelope.data[k] = full[start + k]

\* The second page of one item out of two matching records.
C9_Witness ==
    /\ IsRead
    /\ envelope.page = 2 /\ envelope.limit = 1
    /\ envelope.total = 2
    /\ Len(envelope.data) = 1

\* C10: a paged read called with page <= 0 or limit <= 0 is rejected with
\* InvalidArgument, or its arguments are normalized, before slicing: it never
\* returns a window computed from a negative start or end index.
C10_NoNegativeWindow ==
    (IsRead /\ envelope.status = "ok")
    => LET start == (envelope.page - 1) * envelope.limit
       IN  start >= 0 /\ start + envelope.limit >= 0

\* C11: the conversation findOrCreate(userA, userB) returns has the participant
\* set {userA, userB}, also when userA = userB and whatever the store holds.
C11_ExactParticipants ==
    resp.op = "findOrCreate"
    => Range(resp.list_of_users) = {resp.user1, resp.user2}

\* The participant set a stored conversation was created with, and its least
\* and greatest member.
Participants(c) == Range(conversations[c].list_of_users)
Least(S) == CHOOSE x \in S : \A y \in S : x <= y
Greatest(S) == CHOOSE x \in S : \A y \in S : y <= x

PairIsMinMax(item) ==
    /\ item.user1_id = Least(Participants(item.id))
    /\ item.user2_id = Greatest(Participants(item.id))

\* C12: the participant pair getById and listForUser report for a conversation
\* is (min, max) of its participant set, whatever the order the two ids were
\* given in when it was created.
C12_PairIsMinMax ==
    /\ (envelope.op = "getById" /\ envelope.status = "ok") => PairIsMinMax(envelope.item)
    /\ envelope.op = "listForUser"
         => \A i \in 1..Len(envelope.data) : PairIsMinMax(envelope.data[i])

\* getById reports (min, max) for a conversation created with the greater id
\* first.
C12_Witness ==
    /\ envelope.op = "getById" /\ envelope.status = "ok"
    /\ conversations[envelope.key].list_of_users[1]
         > conversations[envelope.key].list_of_users[2]
    /\ envelope.item.user1_id < envelope.item.user2_id

\* C13: listForUser returns exactly the conversations whose participant set
\* contains the user, ordered by last_message_at descending (a null one counts
\* as the minimum timestamp): the item at position k of a valid window is a
\* conversation of the user, reported with its stored summary, that has at most
\* (page-1)*limit + k - 1 conversations of the user strictly newer than it and
\* at least (page-1)*limit + k at least as new; total counts them all.
C13_ListForUserOrdered ==
    (envelope.op = "listForUser" /\ ValidWindow)
    => LET mine == {i \in DOMAIN conversations : envelope.key \in Participants(i)}
           start == (envelope.page - 1) * envelope.limit
           KeyOf(i) == SortKey(conversations[i])
       IN  /\ envelope.total = Cardinality(mine)
           /\ Len(envelope.data) = WindowLen(Cardinality(mine), envelope.page, envelope.limit)
           /\ \A k \in 1..Len(envelope.data) :
                 LET item == envelope.data[k]
                 IN  /\ item.id \in mine
                     /\ item.last_message_at = conversations[item.id].last_message_at
                     /\ item.last_message_content = conversations[item.id].last_message_content
                     /\ Cardinality({i \in mine : KeyOf(i) > KeyOf(item.id)}) <= start + k - 1
                     /\ Cardinality({i \in mine : KeyOf(i) >= KeyOf(item.id)}) >= start + k
           /\ \A j \in 1..Len(envelope.data), k \in 1..Len(envelope.data) :
                 j # k => envelope.data[j].id # envelope.data[k].id

\* listForUser(page=2, limit=1) for a user with exactly two conversations has
\* returned the one with the older last_message_at, and total = 2.
C13_Witness ==
    /\ envelope.op = "listForUser"
    /\ envelope.page = 2 /\ envelope.limit = 1
    /\ envelope.total = 2
    /\ Len(envelope.data) = 1
    /\ \E i \in DOMAIN conversations :
          /\ envelope.key \in Participants(i)
          /\ conversations[i].last_message_at > envelope.data[1].last_message_at

\* C14: getById on an id for which no conversation is stored fails with
\* NotFound, on a stored id it returns that conversation, and in both cases it
\* leaves the conversations and the messages as they were.
C14_GetByIdNotFound ==
    [][(envelope'.op = "getById" /\ envelope.op # "getById")
       => /\ conversations' = conversations
          /\ messages' = messages
          /\ IF envelope'.key \in DOMAIN conversations
             THEN /\ envelope'.status = "ok"
                  /\ envelope'.item.id = envelope'.key
                  /\ envelope'.item.last_message_at
                       = conversations[envelope'.key].last_message_at
                  /\ envelope'.item.last_message_content
                       = conversations[envelope'.key].last_message_content
                  /\ {envelope'.item.user1_id, envelope'.item.user2_id}
                       = Participants(envelope'.key)
             ELSE envelope'.status = "NotFound"]_vars

\* getById has failed with NotFound on a store that holds conversations and
\* messages, none of them under the id asked for.
C14_Witness ==
    /\ envelope.op = "getById" /\ envelope.status = "NotFound"
    /\ envelope.key \notin DOMAIN conversations
    /\ conversations # << >>
    /\ messages # {}

\* C15: when the message write of an append has succeeded and its summary
\* update fails, the append returns StorageUnavailable, the summary fields of
\* the conversation keep the values they had, the message stays stored, and a
\* later listByConversation returns every stored message of the conversation,
\* this one included.
C15_MessageKeptSummaryStale ==
    /\ [][\A p \in Procs :
             (pc[p] = "cm_update" /\ pc'[p] = "idle" /\ resp'.op = "error")
             => LET c == call[p].conversation_id
                    after == MsgItems(SelectMessages(messages', c))
                IN  /\ resp'.kind = "StorageUnavailable"
                    /\ c \in DOMAIN conversations'
                    /\ conversations'[c].last_message_at = conversations[c].last_message_at
                    /\ conversations'[c].last_message_content
                         = conversations[c].last_message_content
                    /\ \E i \in 1..Len(after) :
                          /\ after[i].id = call[p].message_id
                          /\ after[i].content = call[p].content
                          /\ after[i].created_at = call[p].created_at]_vars
    /\ [](envelope.op = "listByConversation"
            => \A m \in MessagesOf(envelope.key) :
                  \E i \in 1..Len(envelope.data) : envelope.data[i] = MsgItem(m))

\* A listByConversation after an append whose summary update failed: the
\* newest message returned is newer than the summary, which is still that of
\* the message before it.
C15_Witness ==
    /\ envelope.op = "listByConversation"
    /\ Len(envelope.data) = 2
    /\ envelope.data[1].created_at > conversations[envelope.key].last_message_at
    /\ envelope.data[2].created_at = conversations[envelope.key].last_message_at
    /\ envelope.data[2].content = conversations[envelope.key].last_message_content

C17_AppendOnly ==
    [][\A m \in messages : m \in messages']_vars

\* A read has run on a store that holds two messages of one conversation, the
\* second appended after the first.
C17_Witness ==
    /\ envelope.op = "getById" /\ envelope.status = "ok"
    /\ Cardinality(MessagesOf(envelope.key)) = 2
    /\ envelope.item.last_message_content # NullText

\* The message write of an append to conversation c.
MessageWrite(c) ==
    \E p \in Procs :
        pc[p] = "cm_insert" /\ pc'[p] = "cm_update" /\ call[p].conversation_id = c

\* C18: every append stores one new message: its message write raises the
\* listByConversation total of its conversation by exactly one, also when the
\* conversation holds a message with the same created_at, and no other step
\* changes the total; so after n appends the total is n.
C18_OneMessagePerAppend ==
    [][\A c \in ConvIds :
          Len(SelectMessages(messages', c))
            = Len(SelectMessages(messages, c)) + (IF MessageWrite(c) THEN 1 ELSE 0)]_vars

\* Two appends to one conversation were given the same created_at, and both
\* messages are stored.
C18_Witness ==
    \E m1 \in messages, m2 \in messages :
        /\ m1 # m2
        /\ m1.conversation_id = m2.conversation_id
        /\ m1.sent_at = m2.sent_at
        /\ Len(SelectMessages(messages, m1.conversation_id)) = 2

\* C19: under any interleaving, a conversation whose last_message_content is
\* not null has a stored message with that content and with created_at equal
\* to last_message_at.
C19_SummaryIsAStoredMessage ==
    \A c \in DOMAIN conversations :
        conversations[c].last_message_content # NullText
        => \E m \in MessagesOf(c) :
              /\ m.content = conversations[c].last_message_content
              /\ m.sent_at = conversations[c].last_message_at

\* Two overlapping appends have completed and the summary is that of the
\* older message.
C19_Witness ==
    \E c \in DOMAIN conversations :
        /\ ~AppendInProgress(c)
        /\ conversations[c].last_message_content # NullText
        /\ \E m \in MessagesOf(c) : m.sent_at > conversations[c].last_message_at

\* C20: under any interleaving, the message a send between two distinct users
\* S and R stores has sender_id = S and receiver_id = R and belongs to a stored
\* conversation whose participant set is {S, R}.
C20_SendStoresInConversationOfPair ==
    [][\A p \in Procs :
          (/\ pc[p] = "cm_insert" /\ pc'[p] = "cm_update"
           /\ call[p].op = "send" /\ call[p].user1 # call[p].user2)
          => \E m \in messages' \ messages :
                /\ m.sender_id = call[p].user1
                /\ m.receiver_id = call[p].user2
                /\ m.content = call[p].content
                /\ m.conversation_id \in DOMAIN conversations'
                /\ Range(conversations'[m.conversation_id].list_of_users)
                     = {call[p].user1, call[p].user2}]_vars

\* Two overlapping sends between the same two distinct users have stored
\* their messages in two conversations of the pair.
C20_Witness ==
    \E m1 \in messages, m2 \in messages :
        /\ m1.conversation_id # m2.conversation_id
        /\ m1.sender_id # m1.receiver_id
        /\ {m1.sender_id, m1.receiver_id} = {m2.sender_id, m2.receiver_id}
        /\ ConvsOf(conversations, m1.sender_id, m1.receiver_id)
             = {m1.conversation_id, m2.conversation_id}

====
